---- MODULE Spec2Model ----
(***************************************************************************)
(* Legal Intel Dashboard backend: upload endpoint, Celery processing task, *)
(* Redis pub/sub notifications, WebSocket relay, Redis rate limiter and    *)
(* the dashboard statistics cache.                                         *)
(***************************************************************************)
EXTENDS Integers, Sequences, FiniteSets, TLC

\* ------------------------------------------------------------------ bounds
MaxDocs == 1          \* Document rows created in one behaviour
MaxFiles == 2         \* files in one upload batch
NumUsers == 2         \* user ids 1..NumUsers
NumDash == 1          \* concurrent get_dashboard_stats requests
NumSockets == 1       \* websockets opened in one behaviour
MaxMsgs == 2          \* messages waiting in, or owed to, one subscription
NumCallers == 2       \* concurrent check_rate_limit calls
MaxCalls == 3         \* direct check_rate_limit calls in one behaviour
MaxDepCalls == 11     \* rate_limit_dependency calls in one behaviour
MaxTime == 3          \* seconds the clock advances
RateMax == 1          \* max_requests of the direct check_rate_limit calls
RateWindow == 2       \* window_seconds of the direct check_rate_limit calls
MaxQueries == 1       \* rows of the queries table written in one behaviour
MaxCreated == 1       \* users created through POST /users in one behaviour
MaxRedeliveries == 1  \* redeliveries of the task message of one document
NumConnections == 3   \* WebSocket objects handed to the ConnectionManager

\* ------------------------------------------------------- program constants
MAX_FILE_SIZE == 52428800
max_retries == 3
UPLOAD_LIMIT == 10
QUERY_LIMIT == 50
DEFAULT_LIMIT == 100
WINDOW_SECONDS == 60

Users == 1..NumUsers
NULL == "NULL"
ALLOWED_EXTENSIONS == {".pdf", ".docx"}

\* The values of DocumentMetadata.agreement_type that occur.
AgreementTypes == { "NDA" }

\* An uploaded file: the suffix of its name and the length of its content.
FileKinds ==
    { [ext |-> ".pdf",  size |-> 1],
      [ext |-> ".txt",  size |-> 1],
      [ext |-> ".docx", size |-> MAX_FILE_SIZE + 1] }

FileBatches == UNION { [1..n -> FileKinds] : n \in 1..MaxFiles }

\* The requests with one file.
SingleFiles == [1..1 -> FileKinds]

VARIABLES
    documents,          \* table documents: sequence of rows, id = index
    document_metadata,  \* table document_metadata: sequence of rows
    document_chunks,    \* table document_chunks: sequence of rows
    celery_queue,       \* broker queue of process_document messages
    upload,             \* the upload_documents request in flight
    worker,             \* the Celery worker executing process_document_task
    dispatched,         \* history: document ids passed to .delay(), in order
    executions,         \* history: executions of the task per document id
    cache,              \* Redis cache: dashboard_stats:user:{u}
    dash,               \* get_dashboard_stats requests in flight
    uploaded,           \* history: per user, files of returned successful uploads
    active_connections, \* ConnectionManager.active_connections: user id -> sockets
    ws,                 \* the websocket_endpoint call serving each socket
    pubsub,             \* the Redis pub/sub subscription of each socket
    forwarded,          \* history: what websocket.send_json sent on each socket
    expected,           \* history: what was published for each socket while it listened
    ws_published,       \* history: number of messages published
    now,                \* int(time.time())
    rl_store,           \* Redis keys rate_limit:{key}:{window}
    rl,                 \* the check_rate_limit calls in flight
    rl_log,             \* history: the calls that returned
    users,              \* table users: user id -> row
    api,                \* the last HTTP request answered and its response
    queries,            \* table queries: the logged questions
    mgr                 \* history: what the ConnectionManager was last asked about each WebSocket

pipeVars == <<documents, document_metadata, document_chunks, celery_queue,
              worker, executions>>
uploadVars == <<upload, dispatched, uploaded>>
dashVars == <<cache, dash>>
wsVars == <<active_connections, ws, pubsub, forwarded, expected, ws_published, mgr>>
rlVars == <<now, rl_store, rl, rl_log>>
apiVars == <<users, api, queries>>

vars == <<documents, document_metadata, document_chunks, celery_queue, upload,
          worker, dispatched, executions, cache, dash, uploaded,
          active_connections, ws, pubsub, forwarded, expected, ws_published,
          now, rl_store, rl, rl_log, users, api, queries, mgr>>

\* ------------------------------------------------------------- data model
\* file_ext[1:]: the suffix without its dot.
WithoutDot(ext) ==
    CASE ext = ".pdf" -> "pdf" [] ext = ".docx" -> "docx" [] ext = ".txt" -> "txt"
      [] OTHER -> ext

\* Document(filename=..., file_type=file_ext[1:], user_id=..., processed=False)
NewDocument(file, user_id) ==
    [ user_id |-> user_id, file_type |-> WithoutDot(file.ext), processed |-> FALSE,
      processing_error |-> NULL, raw_text |-> NULL, page_count |-> 0 ]

NoDocument == NewDocument([ext |-> NULL], 0)

\* The AsyncSession of one _process_document call: the loaded Document object
\* and the objects added with db.add() that are not flushed yet.
EmptySession ==
    [ loaded |-> FALSE, doc |-> NoDocument, metadata |-> FALSE,
      agreement_type |-> NULL, chunks |-> 0 ]

IdleWorker ==
    [ pc |-> "idle", document_id |-> 0, retries |-> 0, session |-> EmptySession,
      start_doc |-> NoDocument, exc |-> NULL, committed |-> "none", notified |-> << >>,
      llm |-> NULL, embedding |-> NULL ]

IdleUpload ==
    [ pc |-> "idle", user_id |-> 0, files |-> <<>>, i |-> 0, document_id |-> 0,
      successful |-> 0, failed |-> 0, results |-> <<>>, written |-> 0, status |-> 0 ]

DocIds == 1..MaxDocs

NoStats ==
    [ total_documents |-> 0, processed_documents |-> 0, total_pages |-> 0,
      agreement_types |-> [ t \in AgreementTypes |-> 0 ] ]

\* A Redis key that does not exist.
NoEntry == [ present |-> FALSE, stats |-> NoStats ]

HasMetadata(d) == \E i \in 1..Len(document_metadata) : document_metadata[i].document_id = d

MetadataCount(d) ==
    Cardinality({ i \in 1..Len(document_metadata) : document_metadata[i].document_id = d })

ChunkCount(d) ==
    Cardinality({ i \in 1..Len(document_chunks) : document_chunks[i].document_id = d })

\* select(Document).where(Document.id == document_id) ... scalar_one_or_none()
DocumentExists(d) == d \in 1..Len(documents)

\* ---------------------------------------------------------- upload_documents
\* DocumentService.save_uploaded_file: the two validations that raise ValueError
FileAccepted(file) == file.ext \in ALLOWED_EXTENSIONS /\ ~(file.size > MAX_FILE_SIZE)

ErrorResult == [ document_id |-> 0, status |-> "error" ]
SuccessResult(d) == [ document_id |-> d, status |-> "success" ]

\* The loop left at the first file that failed.
NextFileUnlessFailed(u) ==
    [ u EXCEPT !.i = u.i + 1, !.document_id = 0,
               !.pc = IF u.i + 1 > Len(u.files) \/ u.failed > 0 THEN "invalidate"
                                                                ELSE "save" ]

\* After one file of the loop is done: the next file, or the code after the loop.
NextFile(u) ==
    [ u EXCEPT !.i = u.i + 1, !.document_id = 0,
               !.pc = IF u.i + 1 > Len(u.files) THEN "invalidate" ELSE "save" ]

\* The Document rows the files of a request can create.
RowsOf(fs) == Cardinality({ i \in 1..Len(fs) : FileAccepted(fs[i]) })

\* upload_documents starts for the authenticated user u with files fs, one of
\* the given requests.
UploadDocumentsFor(u, requests) ==
    /\ upload.pc \in {"idle", "returned"}
    /\ \E fs \in requests :
         /\ Len(documents) + RowsOf(fs) <= MaxDocs
         /\ upload' = [ IdleUpload EXCEPT !.pc = "save", !.user_id = u, !.files = fs, !.i = 1 ]
    /\ UNCHANGED <<pipeVars, dispatched, uploaded, dashVars, wsVars, rlVars, users, queries>>

\* POST /documents/upload with one file, by the users of the table with their
\* own tokens, while fewer than MaxDocs rows exist.
UploadStart ==
    /\ Len(documents) < MaxDocs
    /\ api' = api
    /\ \E u \in Users : UploadDocumentsFor(u, SingleFiles)

\* POST /documents/upload with up to MaxFiles files.
UploadBatch == api' = api /\ \E u \in Users : UploadDocumentsFor(u, FileBatches)

\* service.save_uploaded_file(file, user_id, db): validate, write the file, add the
\* row and commit it. A ValueError or a failing commit is caught by the loop's except;
\* written counts the files of the request written to the upload directory.
SaveUploadedFile ==
    /\ upload.pc = "save"
    /\ LET file == upload.files[upload.i] IN
       \E db_ok \in BOOLEAN :
         IF FileAccepted(file) /\ db_ok
           THEN /\ documents' = Append(documents, NewDocument(file, upload.user_id))
                /\ upload' = [ upload EXCEPT !.pc = "dispatch",
                                             !.written = @ + 1,
                                             !.document_id = Len(documents) + 1 ]
           ELSE /\ documents' = documents
                /\ upload' = NextFile([ upload EXCEPT
                       !.written = IF FileAccepted(file) THEN @ + 1 ELSE @,
                       !.failed = @ + 1,
                       !.results = Append(@, ErrorResult) ])
    /\ UNCHANGED <<document_metadata, document_chunks, celery_queue, worker, executions,
                   dispatched, uploaded, dashVars, wsVars, rlVars, apiVars>>

\* The message process_document_task.delay(document.id) puts on the broker.
TaskMessage(d) == [ document_id |-> d, retries |-> 0 ]

\* process_document_task.delay(document.id), then results.append(...success...).
\* When the broker cannot be reached .delay() raises and the loop's except records
\* the file as failed with document_id 0.
DispatchTask ==
    /\ upload.pc = "dispatch"
    /\ \E broker_ok \in BOOLEAN :
         IF broker_ok
           THEN /\ celery_queue' = celery_queue \cup { TaskMessage(upload.document_id) }
                /\ dispatched' = Append(dispatched, upload.document_id)
                /\ upload' = NextFile([ upload EXCEPT
                       !.successful = @ + 1,
                       !.results = Append(@, SuccessResult(upload.document_id)) ])
           ELSE /\ UNCHANGED <<celery_queue, dispatched>>
                /\ upload' = NextFile([ upload EXCEPT !.failed = @ + 1,
                                                      !.results = Append(@, ErrorResult) ])
    /\ UNCHANGED <<documents, document_metadata, document_chunks, worker, executions,
                   uploaded, dashVars, wsVars, rlVars, apiVars>>

\* if successful > 0: cache_service.delete(...); return BatchUploadResponse(
\* total=len(files), successful=successful, failed=failed, documents=results)
UploadReturn ==
    /\ upload.pc = "invalidate"
    /\ cache' = IF upload.successful > 0
                  THEN [ cache EXCEPT ![upload.user_id] = NoEntry ]
                  ELSE cache
    /\ uploaded' = [ uploaded EXCEPT ![upload.user_id] = @ + upload.successful ]
    /\ upload' = [ upload EXCEPT !.pc = "returned", !.status = 200 ]
    /\ UNCHANGED <<pipeVars, dispatched, dash, wsVars, rlVars, apiVars>>

\* ------------------------------------------------- notify_document_update
\* The JSON message of notify_document_update.
UpdateMessage(document_id, processed, error) ==
    [ document_id |-> document_id, processed |-> processed, processing_error |-> error ]

\* What pubsub.listen() yields for a published message.
PubSubMessage(channel, data) == [ type |-> "message", channel |-> channel, data |-> data ]

\* What pubsub.listen() yields first: the confirmation of the subscription.
SubscribeMessage(channel) ==
    [ type |-> "subscribe", channel |-> channel, data |-> UpdateMessage(0, FALSE, NULL) ]

\* Mutant: the message handed to every subscription, whatever its channel.
DeliverToAll(channel, data) ==
    [ s \in DOMAIN pubsub |->
        IF pubsub[s].channels # {}
          THEN [ pubsub[s] EXCEPT !.inbox = Append(@, PubSubMessage(channel, data)) ]
          ELSE pubsub[s] ]

\* redis.publish(channel, ...): Redis hands the message to every subscription of
\* the channel, in publication order.
Deliver(channel, data) ==
    [ s \in DOMAIN pubsub |->
        IF channel \in pubsub[s].channels
          THEN [ pubsub[s] EXCEPT !.inbox = Append(@, PubSubMessage(channel, data)) ]
          ELSE pubsub[s] ]

\* The sockets a message published on the channel is owed to: those whose
\* endpoint is subscribed and whose client_state is CONNECTED.
Listening(s, channel) ==
    /\ ws[s].pc = "listening"
    /\ ws[s].client_state = "CONNECTED"
    /\ channel \in pubsub[s].channels

\* notify_document_update(document_id, user_id, processed, error): publish on
\* document_updates:{user_id}; every exception is caught and printed.
Notify(document_id, user_id, processed, error, redis_ok) ==
    IF redis_ok
      THEN /\ pubsub' = Deliver(user_id, UpdateMessage(document_id, processed, error))
           /\ expected' = [ s \in DOMAIN expected |->
                 IF Listening(s, user_id)
                   THEN Append(expected[s],
                               [ channel |-> user_id,
                                 data |-> UpdateMessage(document_id, processed, error) ])
                   ELSE expected[s] ]
      ELSE UNCHANGED <<pubsub, expected>>

\* ------------------------------------------------- process_document_task
\* Mutant: retrying while retries <= max_retries.
RetryAllowedOnceMore(retries) == retries <= max_retries

\* Celery's autoretry_for=(Exception,) with retry_kwargs max_retries: an attempt
\* that raised is retried while the request's retries are below max_retries.
RetryAllowed(retries) == retries < max_retries

\* Mutant: db.add(metadata) forgotten.
MetadataToInsertNone(d, session) == << >>

\* The rows db.commit() inserts into document_metadata for the session.
MetadataToInsert(d, session) ==
    IF session.metadata
      THEN << [ document_id |-> d, agreement_type |-> session.agreement_type ] >>
      ELSE << >>

\* The rows db.commit() inserts into document_chunks for the session.
ChunksToInsert(d, session) ==
    [ i \in 1..session.chunks |-> [ document_id |-> d, chunk_index |-> i - 1 ] ]

\* document_metadata.document_id is unique: a second row for d is refused.
FlushAccepted(d, session) == ~(session.metadata /\ HasMetadata(d))

\* Mutant: the rollback in the except block forgotten.
RolledBackNot(session) == session

\* db.rollback(): pending objects are expunged and loaded ones expire.
RolledBack(session) == EmptySession

\* The worker takes a message off the queue and runs process_document_task:
\* _process_document opens a session and selects the document; when there is no
\* such row it returns, and the task ends without an error.
TaskStart ==
    /\ worker.pc = "idle"
    /\ \E msg \in celery_queue :
         LET d == msg.document_id IN
         /\ celery_queue' = celery_queue \ {msg}
         /\ executions' = [ executions EXCEPT ![d] = @ + 1 ]
         /\ worker' = IF DocumentExists(d)
                        THEN [ IdleWorker EXCEPT
                                 !.pc = "process", !.document_id = d,
                                 !.retries = msg.retries, !.start_doc = documents[d],
                                 !.session = [ EmptySession EXCEPT
                                                 !.loaded = TRUE, !.doc = documents[d] ] ]
                        ELSE [ IdleWorker EXCEPT !.pc = "done", !.document_id = d,
                                                 !.retries = msg.retries ]
    /\ UNCHANGED <<documents, document_metadata, document_chunks,
                   uploadVars, dashVars, wsVars, rlVars, apiVars>>

\* What parse_document can read from a file: a text the agreement type
\* patterns of the rules match, and one they do not.
Texts == { "Non-Disclosure Agreement", "memo" }

\* What the LLM of a MetadataExtractor or QueryService does in one call: no API
\* key is configured (llm is None), the chain answers (for the extractor the
\* agreement type of the document, for the query service the agreement type to
\* filter on; either may be none), or the call or its output parsing raises.
LlmOutcomes ==
    { [ llm |-> "none", answer |-> NULL ], [ llm |-> "raises", answer |-> NULL ] }
      \cup { [ llm |-> "ok", answer |-> a ] : a \in AgreementTypes \cup {NULL} }

\* _extract_with_rules: the first agreement pattern found in the text.
ExtractWithRules(text) ==
    [ raised |-> FALSE,
      agreement_type |-> IF text = "Non-Disclosure Agreement" THEN "NDA" ELSE NULL ]

\* extract_metadata without the except of _extract_with_llm: the exception of
\* the chain leaves it.
ExtractMetadataRaising(llm, answer, text) ==
    IF llm = "ok" THEN [ raised |-> FALSE, agreement_type |-> answer ]
    ELSE IF llm = "raises" THEN [ raised |-> TRUE, agreement_type |-> NULL ]
    ELSE ExtractWithRules(text)

\* extract_metadata: without an LLM the rules; with one _extract_with_llm, which
\* returns the LLM's answer, or the rules' when the chain raises.
ExtractMetadata(llm, answer, text) ==
    IF llm = "ok" THEN [ raised |-> FALSE, agreement_type |-> answer ]
    ELSE ExtractWithRules(text)

\* The session after the body of the try block up to document.processed = True:
\* parse_document sets raw_text and page_count, the DocumentMetadata built from
\* the extraction is added, the chunks are added when the embedding service is
\* available and does not fail.
Processed(session, text, agreement_type, embedding) ==
    [ session EXCEPT !.doc.raw_text = text, !.doc.page_count = 1,
                     !.doc.processed = TRUE, !.metadata = TRUE,
                     !.agreement_type = agreement_type,
                     !.chunks = IF embedding = "ok" THEN 1 ELSE 0 ]

\* What the embedding step does in one attempt: no API key is configured
\* (is_available() is False), the chunks and their embeddings are added, or
\* chunk_text or generate_embeddings_batch raises.
EmbeddingOutcomes == { "unavailable", "ok", "failed" }

\* The embedding step without its except: the exception leaves the step.
EmbeddingStepRaising(embedding) == embedding = "failed"

\* Whether an exception leaves the embedding step: "except Exception as e"
\* around it prints a warning and goes on.
EmbeddingStep(embedding) == FALSE

\* Lines 115-181 of _process_document: parser.parse_document raises ValueError
\* for a file it cannot read; an exception leaving extract_metadata would reach
\* the except block too; the failures of the embedding step are caught.
ProcessBody ==
    /\ worker.pc = "process"
    /\ \E parsed \in BOOLEAN, text \in Texts, o \in LlmOutcomes,
          embedding \in EmbeddingOutcomes :
         LET metadata_dict == ExtractMetadata(o.llm, o.answer, text) IN
         worker' = IF ~parsed
                     THEN [ worker EXCEPT !.pc = "except", !.exc = "parse_error" ]
                   ELSE IF metadata_dict.raised
                     THEN [ worker EXCEPT !.pc = "except", !.exc = "llm_error",
                                          !.llm = o.llm ]
                   ELSE IF EmbeddingStep(embedding)
                     THEN [ worker EXCEPT !.pc = "except", !.exc = "embedding_error",
                                          !.llm = o.llm, !.embedding = embedding ]
                   ELSE [ worker EXCEPT
                            !.pc = "commit", !.llm = o.llm, !.embedding = embedding,
                            !.session = Processed(worker.session, text,
                                                  metadata_dict.agreement_type,
                                                  embedding) ]
    /\ UNCHANGED <<documents, document_metadata, document_chunks, celery_queue,
                   executions, uploadVars, dashVars, wsVars, rlVars, apiVars>>

\* await db.commit() of the attempt: one transaction writes the document's
\* attributes and inserts the metadata and chunk rows, or raises and writes none.
CommitProcessed ==
    /\ worker.pc = "commit"
    /\ LET d == worker.document_id
           session == worker.session IN
       \E db_ok \in BOOLEAN :
         IF db_ok /\ FlushAccepted(d, session)
           THEN /\ documents' = [ documents EXCEPT ![d] = session.doc ]
                /\ document_metadata' = document_metadata \o MetadataToInsert(d, session)
                /\ document_chunks' = document_chunks \o ChunksToInsert(d, session)
                /\ worker' = [ worker EXCEPT
                      !.pc = "notify_processed", !.committed = "processed",
                      !.session.metadata = FALSE, !.session.agreement_type = NULL,
                      !.session.chunks = 0, !.llm = NULL ]
           ELSE /\ UNCHANGED <<documents, document_metadata, document_chunks>>
                /\ worker' = [ worker EXCEPT !.pc = "except", !.exc = "commit_error",
                                             !.llm = NULL, !.embedding = NULL ]
    /\ UNCHANGED <<celery_queue, executions, uploadVars, dashVars, wsVars, rlVars, apiVars>>

\* What the worker remembers of a notify_document_update call of the attempt.
Notified(user_id, processed, error, redis_ok) ==
    [ user_id |-> user_id, processed |-> processed, processing_error |-> error,
      published |-> redis_ok ]

\* notify_document_update(document_id, document.user_id, processed=True); the
\* attempt then ends without an error.
NotifyProcessed ==
    /\ worker.pc = "notify_processed"
    /\ \E redis_ok \in BOOLEAN :
         /\ Notify(worker.document_id, worker.session.doc.user_id, TRUE, NULL, redis_ok)
         /\ worker' = [ worker EXCEPT
               !.pc = "done",
               !.notified = Append(@, Notified(worker.session.doc.user_id, TRUE, NULL,
                                               redis_ok)) ]
    /\ UNCHANGED <<documents, document_metadata, document_chunks, celery_queue,
                   executions, uploadVars, dashVars,
                   active_connections, ws, forwarded, ws_published, rlVars, apiVars, mgr>>

\* The task returned: with task_acks_late the message is acknowledged now.
TaskSucceeded ==
    /\ worker.pc = "done"
    /\ worker' = IdleWorker
    /\ UNCHANGED <<documents, document_metadata, document_chunks, celery_queue,
                   executions, uploadVars, dashVars, wsVars, rlVars, apiVars>>

\* The Document object the error path works on: the select returns the object
\* of the session's identity map when it is still loaded, else a fresh load.
ErrorDoc(d, session) == IF session.loaded THEN session.doc ELSE documents[d]

\* Mutant: the failure notification sent whether or not the error state was saved.
AfterSaveAlwaysNotify(saved) == "notify_error"

\* Where the except block goes after the attempt to save the error state: the
\* notification is sent only inside "if error_doc:", after the commit.
AfterSave(saved) == IF saved THEN "notify_error" ELSE "raise"

\* except Exception as e: db.rollback(), then save the error state in a new
\* transaction: select the document again, set processing_error and processed,
\* commit. A failure of this is caught, printed and rolled back.
SaveErrorState ==
    /\ worker.pc = "except"
    /\ LET d == worker.document_id
           session == RolledBack(worker.session)
           error_doc == [ ErrorDoc(d, session) EXCEPT !.processing_error = worker.exc,
                                                      !.processed = FALSE ] IN
       \E db_ok \in BOOLEAN :
         IF DocumentExists(d) /\ db_ok /\ FlushAccepted(d, session)
           THEN /\ documents' = [ documents EXCEPT ![d] = error_doc ]
                /\ document_metadata' = document_metadata \o MetadataToInsert(d, session)
                /\ document_chunks' = document_chunks \o ChunksToInsert(d, session)
                /\ worker' = [ worker EXCEPT
                      !.pc = AfterSave(TRUE), !.committed = "error",
                      !.session = [ EmptySession EXCEPT !.loaded = TRUE,
                                                        !.doc = error_doc ] ]
           ELSE /\ UNCHANGED <<documents, document_metadata, document_chunks>>
                /\ worker' = [ worker EXCEPT !.pc = AfterSave(FALSE),
                                             !.session = EmptySession ]
    /\ UNCHANGED <<celery_queue, executions, uploadVars, dashVars, wsVars, rlVars, apiVars>>

\* notify_document_update(document_id, user_id, processed=False, error=str(e))
NotifyError ==
    /\ worker.pc = "notify_error"
    /\ \E redis_ok \in BOOLEAN :
         /\ Notify(worker.document_id, worker.session.doc.user_id, FALSE, worker.exc,
                   redis_ok)
         /\ worker' = [ worker EXCEPT
               !.pc = "raise",
               !.notified = Append(@, Notified(worker.session.doc.user_id, FALSE,
                                               worker.exc, redis_ok)) ]
    /\ UNCHANGED <<documents, document_metadata, document_chunks, celery_queue,
                   executions, uploadVars, dashVars,
                   active_connections, ws, forwarded, ws_published, rlVars, apiVars, mgr>>

\* raise: the exception leaves _process_document and process_document_task, and
\* Celery retries the task (a new message with retries + 1) or gives it up.
RaiseToTask ==
    /\ worker.pc = "raise"
    /\ celery_queue' =
         IF RetryAllowed(worker.retries)
           THEN celery_queue \cup { [ document_id |-> worker.document_id,
                                      retries |-> worker.retries + 1 ] }
           ELSE celery_queue
    /\ worker' = IdleWorker
    /\ UNCHANGED <<documents, document_metadata, document_chunks, executions,
                   uploadVars, dashVars, wsVars, rlVars, apiVars>>

\* task_acks_late with task_reject_on_worker_lost: the message of a task is
\* acknowledged only when the task returned, so when the worker process is lost
\* during an execution the broker delivers the same message again. What the
\* execution committed stays; its open transaction is gone with the connection.
\* executions counts the first delivery, the retries and the redeliveries.
Redeliveries(d, retries) == executions[d] - retries - 1

WorkerLost ==
    /\ worker.pc # "idle"
    /\ Redeliveries(worker.document_id, worker.retries) < MaxRedeliveries
    /\ celery_queue' = celery_queue \cup { [ document_id |-> worker.document_id,
                                             retries |-> worker.retries ] }
    /\ worker' = IdleWorker
    /\ UNCHANGED <<documents, document_metadata, document_chunks, executions,
                   uploadVars, dashVars, wsVars, rlVars, apiVars>>

\* ------------------------------------------------------ get_dashboard_stats
DashReqs == 1..NumDash

IdleDash == [ pc |-> "idle", user_id |-> 0, base |-> 0, stats |-> NoStats ]

DocsOf(u) == { d \in 1..Len(documents) : documents[d].user_id = u }

RECURSIVE SumPages(_)
SumPages(ds) ==
    IF ds = {} THEN 0
    ELSE LET d == CHOOSE x \in ds : TRUE IN documents[d].page_count + SumPages(ds \ {d})

\* and_(Document.user_id == user_id, Document.processed is True): Python evaluates
\* "Document.processed is True" to False before SQLAlchemy sees it, so the
\* clause is the constant false.
ProcessedClause(doc) == FALSE

\* select(DocumentMetadata).join(Document).where(Document.user_id == user_id)
MetadataOf(u) ==
    { i \in 1..Len(document_metadata) : document_metadata[i].document_id \in DocsOf(u) }

\* The statistics the queries of get_dashboard_stats compute from the tables;
\* a Counter is kept per metadata field and counts the non-empty values.
ComputeStats(u) ==
    [ total_documents |-> Cardinality(DocsOf(u)),
      processed_documents |->
          Cardinality({ d \in DocsOf(u) : ProcessedClause(documents[d]) }),
      total_pages |-> SumPages(DocsOf(u)),
      agreement_types |->
          [ t \in AgreementTypes |->
              Cardinality({ i \in MetadataOf(u) :
                              document_metadata[i].agreement_type = t }) ] ]

\* GET /dashboard for user u: cache_service.get(cache_key); a hit is returned.
GetDashboardStatsFor(u) ==
    \E r \in DashReqs :
      /\ dash[r].pc \in {"idle", "done"}
      /\ dash' = [ dash EXCEPT ![r] =
            IF cache[u].present
              THEN [ pc |-> "done", user_id |-> u, base |-> uploaded[u],
                     stats |-> cache[u].stats ]
              ELSE [ pc |-> "query", user_id |-> u, base |-> uploaded[u],
                     stats |-> NoStats ] ]
      /\ UNCHANGED <<pipeVars, uploadVars, cache, wsVars, rlVars, users, queries>>

\* GET /dashboard by the users of the table with their own tokens.
DashStart == api' = api /\ \E u \in Users : GetDashboardStatsFor(u)

\* The count, sum and metadata queries on a cache miss.
DashQuery ==
    \E r \in DashReqs :
      /\ dash[r].pc = "query"
      /\ dash' = [ dash EXCEPT ![r].pc = "set", ![r].stats = ComputeStats(dash[r].user_id) ]
      /\ UNCHANGED <<pipeVars, uploadVars, cache, wsVars, rlVars, apiVars>>

\* cache_service.set(cache_key, stats, ttl=300); return stats
DashSetCache ==
    \E r \in DashReqs :
      /\ dash[r].pc = "set"
      /\ cache' = [ cache EXCEPT ![dash[r].user_id] =
                       [ present |-> TRUE, stats |-> dash[r].stats ] ]
      /\ dash' = [ dash EXCEPT ![r].pc = "done" ]
      /\ UNCHANGED <<pipeVars, uploadVars, wsVars, rlVars, apiVars>>

\* Redis drops the key when its ttl of 300 seconds has passed.
CacheExpire ==
    \E u \in Users :
      /\ cache[u].present
      /\ cache' = [ cache EXCEPT ![u] = NoEntry ]
      /\ UNCHANGED <<pipeVars, uploadVars, dash, wsVars, rlVars, apiVars>>

\* ------------------------------------------------------- websocket_endpoint
Sockets == 1..NumSockets

NewSocket ==
    [ pc |-> "new", user_id |-> 0, client_state |-> "CONNECTING", gone |-> FALSE,
      redis_listener |-> FALSE, client_listener |-> FALSE ]

NoPubSub == [ channels |-> {}, inbox |-> << >> ]

\* ConnectionManager.connect after websocket.accept()
Connect(conns, s, u) ==
    IF u \in DOMAIN conns
      THEN [ conns EXCEPT ![u] = @ \cup {s} ]
      ELSE [ x \in DOMAIN conns \cup {u} |-> IF x = u THEN {s} ELSE conns[x] ]

\* ConnectionManager.disconnect
Disconnect(conns, s, u) ==
    IF u \in DOMAIN conns
      THEN IF conns[u] \ {s} = {}
             THEN [ x \in DOMAIN conns \ {u} |-> conns[x] ]
             ELSE [ conns EXCEPT ![u] = @ \ {s} ]
      ELSE conns

\* A client opens /ws/{user_id}: connection_manager.connect(websocket, user_id)
WsConnect ==
    \E s \in Sockets, u \in Users :
      /\ ws[s].pc = "new"
      /\ ws' = [ ws EXCEPT ![s] = [ NewSocket EXCEPT !.pc = "connected", !.user_id = u,
                                                   !.client_state = "CONNECTED" ] ]
      /\ active_connections' = Connect(active_connections, s, u)
      /\ UNCHANGED <<pipeVars, uploadVars, dashVars, pubsub, forwarded, expected,
                     ws_published, rlVars, apiVars, mgr>>

\* redis.pubsub() and pubsub.subscribe(channel_name), then both listeners are
\* started with asyncio.gather; when Redis cannot be reached the except prints
\* the error and the finally block runs.
WsSubscribe ==
    \E s \in Sockets, redis_ok \in BOOLEAN :
      /\ ws[s].pc = "connected"
      /\ IF redis_ok
           THEN /\ pubsub' = [ pubsub EXCEPT ![s] =
                      [ channels |-> {ws[s].user_id},
                        inbox |-> << SubscribeMessage(ws[s].user_id) >> ] ]
                /\ ws' = [ ws EXCEPT ![s].pc = "listening", ![s].redis_listener = TRUE,
                                     ![s].client_listener = TRUE ]
           ELSE /\ pubsub' = pubsub
                /\ ws' = [ ws EXCEPT ![s].pc = "finally" ]
      /\ UNCHANGED <<pipeVars, uploadVars, dashVars, active_connections, forwarded,
                     expected, ws_published, rlVars, apiVars, mgr>>

\* One turn of "async for message in pubsub.listen()" in listen_redis: a message
\* of type "message" is sent with websocket.send_json when client_state is
\* CONNECTED, and ends the listener otherwise or when the send raises.
ListenRedis ==
    \E s \in Sockets :
      /\ ws[s].pc = "listening"
      /\ ws[s].redis_listener
      /\ pubsub[s].inbox # << >>
      /\ LET message == Head(pubsub[s].inbox) IN
         /\ pubsub' = [ pubsub EXCEPT ![s].inbox = Tail(@) ]
         /\ IF message.type = "message"
              THEN IF ws[s].client_state = "CONNECTED"
                     THEN \E sent \in (IF ws[s].gone THEN BOOLEAN ELSE {TRUE}) :
                            IF sent
                              THEN /\ forwarded' = [ forwarded EXCEPT ![s] =
                                         Append(@, [ channel |-> message.channel,
                                                     data |-> message.data ]) ]
                                   /\ ws' = ws
                              ELSE /\ forwarded' = forwarded
                                   /\ ws' = [ ws EXCEPT ![s].redis_listener = FALSE ]
                     ELSE /\ forwarded' = forwarded
                          /\ ws' = [ ws EXCEPT ![s].redis_listener = FALSE ]
              ELSE UNCHANGED <<forwarded, ws>>
      /\ UNCHANGED <<pipeVars, uploadVars, dashVars, active_connections, expected,
                     ws_published, rlVars, apiVars, mgr>>

\* The client closes its end of the connection.
ClientCloses ==
    \E s \in Sockets :
      /\ ws[s].pc \in {"connected", "listening"}
      /\ ~ws[s].gone
      /\ ws' = [ ws EXCEPT ![s].gone = TRUE ]
      /\ UNCHANGED <<pipeVars, uploadVars, dashVars, active_connections, pubsub,
                     forwarded, expected, ws_published, rlVars, apiVars, mgr>>

\* listen_client: websocket.receive_text() receives the disconnect, which sets
\* client_state to DISCONNECTED and raises WebSocketDisconnect; the listener ends.
ListenClient ==
    \E s \in Sockets :
      /\ ws[s].pc = "listening"
      /\ ws[s].client_listener
      /\ ws[s].gone
      /\ ws' = [ ws EXCEPT ![s].client_state = "DISCONNECTED",
                           ![s].client_listener = FALSE ]
      /\ UNCHANGED <<pipeVars, uploadVars, dashVars, active_connections, pubsub,
                     forwarded, expected, ws_published, rlVars, apiVars, mgr>>

\* asyncio.gather returns when both listeners have ended; then the finally
\* block: connection_manager.disconnect, pubsub.unsubscribe, pubsub.close.
WsFinally ==
    \E s \in Sockets :
      /\ \/ ws[s].pc = "finally"
         \/ ws[s].pc = "listening" /\ ~ws[s].redis_listener /\ ~ws[s].client_listener
      /\ active_connections' = Disconnect(active_connections, s, ws[s].user_id)
      /\ pubsub' = [ pubsub EXCEPT ![s] = NoPubSub ]
      /\ ws' = [ ws EXCEPT ![s].pc = "done" ]
      /\ UNCHANGED <<pipeVars, uploadVars, dashVars, forwarded, expected, ws_published,
                     rlVars, apiVars, mgr>>

\* Some processing attempt publishes a status with notify_document_update.
PublishUpdate ==
    /\ ws_published < MaxMsgs
    /\ ws_published' = ws_published + 1
    /\ \E u \in Users, processed \in BOOLEAN :
         Notify(1, u, processed, IF processed THEN NULL ELSE "parse_error", TRUE)
    /\ UNCHANGED <<pipeVars, uploadVars, dashVars, active_connections, ws, forwarded,
                   rlVars, apiVars, mgr>>

\* --------------------------------------------------------- ConnectionManager
\* The WebSocket objects the methods of the manager are called with.
Connections == 1..NumConnections

NewConnection == [ state |-> "new", user_id |-> 0 ]

\* The sockets of a user's entry for which send_json raised are discarded from
\* the entry.
Discard(conns, u, disconnected) == [ conns EXCEPT ![u] = @ \ disconnected ]

\* connection_manager.connect(websocket, user_id) with a new WebSocket.
ManagerConnect ==
    /\ \E c \in Connections, u \in Users :
         /\ mgr[c].state = "new"
         /\ active_connections' = Connect(active_connections, c, u)
         /\ mgr' = [ mgr EXCEPT ![c] = [ state |-> "connected", user_id |-> u ] ]
    /\ UNCHANGED <<pipeVars, uploadVars, dashVars, ws, pubsub, forwarded, expected,
                   ws_published, rlVars, apiVars>>

\* connection_manager.disconnect(websocket, user_id) for a WebSocket that was
\* connected, with the user id it was connected for.
ManagerDisconnect ==
    /\ \E c \in Connections :
         /\ mgr[c].state \in {"connected", "send_failed", "closed"}
         /\ active_connections' = Disconnect(active_connections, c, mgr[c].user_id)
         /\ mgr' = [ mgr EXCEPT ![c].state = "disconnected" ]
    /\ UNCHANGED <<pipeVars, uploadVars, dashVars, ws, pubsub, forwarded, expected,
                   ws_published, rlVars, apiVars>>

\* send_to_user(user_id, message): send_json to every connection of the user's
\* entry; those for which it raises are collected and discarded afterwards.
SendToUser ==
    /\ \E u \in Users :
         /\ u \in DOMAIN active_connections
         /\ \E disconnected \in SUBSET active_connections[u] :
              /\ active_connections' = Discard(active_connections, u, disconnected)
              /\ mgr' = [ c \in Connections |->
                            IF c \in disconnected
                              THEN [ mgr[c] EXCEPT !.state = "send_failed" ]
                              ELSE mgr[c] ]
    /\ UNCHANGED <<pipeVars, uploadVars, dashVars, ws, pubsub, forwarded, expected,
                   ws_published, rlVars, apiVars>>

\* close_all_connections: every connection of every entry is closed and the
\* entry deleted.
CloseAllConnections ==
    /\ DOMAIN active_connections # {}
    /\ active_connections' = << >>
    /\ mgr' = [ c \in Connections |->
                  IF \E u \in DOMAIN active_connections : c \in active_connections[u]
                    THEN [ mgr[c] EXCEPT !.state = "closed" ]
                    ELSE mgr[c] ]
    /\ UNCHANGED <<pipeVars, uploadVars, dashVars, ws, pubsub, forwarded, expected,
                   ws_published, rlVars, apiVars>>

\* ------------------------------------------------------------- RateLimiter
Callers == 1..NumCallers
Ips == {"10.0.0.1", "10.0.0.2"}
NoTTL == -1

\* request.url.path of the two routes that depend on rate_limit_dependency,
\* as path segments.
Paths == { <<"api", "v1", "documents", "upload">>, <<"api", "v1", "query">> }

\* "/upload" in request.url.path
Contains(path, segment) == \E i \in 1..Len(path) : path[i] = segment

IdleCall ==
    [ pc |-> "idle", key |-> << >>, window |-> 0, max_requests |-> 0, window_seconds |-> 0,
      current_time |-> 0, count |-> 0, path |-> << >>, nth |-> 0 ]

NoReturn ==
    [ key |-> << >>, window |-> 0, max_requests |-> 0, count |-> 0, path |-> << >>,
      nth |-> 0, allowed |-> FALSE ]

\* window_key = f"rate_limit:{key}:{current_time // window_seconds}"
WindowKey(key, current_time, window_seconds) == << key, current_time \div window_seconds >>

\* return count <= max_requests
Allowed(count, max_requests) == count <= max_requests

\* Redis INCR: a missing key counts from 0 and is created without a ttl.
Incr(store, k) ==
    IF k \in DOMAIN store
      THEN [ store EXCEPT ![k].count = @ + 1 ]
      ELSE [ x \in DOMAIN store \cup {k} |->
               IF x = k THEN [ count |-> 1, expire_at |-> NoTTL ] ELSE store[x] ]

\* Redis EXPIRE key seconds
Expire(store, k, seconds) ==
    IF k \in DOMAIN store THEN [ store EXCEPT ![k].expire_at = now + seconds ] ELSE store

\* The keys Redis still holds at time t.
Unexpired(store, t) ==
    LET live == { k \in DOMAIN store :
                    store[k].expire_at = NoTTL \/ store[k].expire_at > t } IN
    [ k \in live |-> store[k] ]

\* A second passes; Redis drops the keys whose ttl has run out.
Tick ==
    /\ now < MaxTime
    /\ now' = now + 1
    /\ rl_store' = Unexpired(rl_store, now + 1)
    /\ UNCHANGED <<pipeVars, uploadVars, dashVars, wsVars, rl, rl_log, apiVars>>

\* The limit rate_limit_dependency applies to a path.
EndpointLimit(path) ==
    IF Contains(path, "upload") THEN UPLOAD_LIMIT
    ELSE IF Contains(path, "query") THEN QUERY_LIMIT
    ELSE DEFAULT_LIMIT

\* The endpoint class of a path, as the docstring of rate_limit_dependency names it.
EndpointClass(path) ==
    IF Contains(path, "upload") THEN "upload"
    ELSE IF Contains(path, "query") THEN "query"
    ELSE "other"

\* identifier = f"ip:{client_ip}"
Identifier(client_ip) == << "ip", client_ip >>

\* check_rate_limit up to its first await: current_time = int(time.time()) and
\* the window key.
BeginCheck(p, key, max_requests, window_seconds, path) ==
    rl' = [ rl EXCEPT ![p] =
              [ IdleCall EXCEPT !.pc = "incr", !.key = key,
                                !.window = WindowKey(key, now, window_seconds)[2],
                                !.max_requests = max_requests,
                                !.window_seconds = window_seconds,
                                !.current_time = now, !.path = path ] ]

\* A caller calls rate_limiter.check_rate_limit(key, max_requests, window_seconds).
CheckRateLimit ==
    \E p \in Callers, ip \in Ips :
      /\ rl[p].pc = "idle"
      /\ rl_log.calls < MaxCalls
      /\ BeginCheck(p, Identifier(ip), RateMax, RateWindow, << >>)
      /\ rl_log' = [ rl_log EXCEPT !.calls = @ + 1 ]
      /\ UNCHANGED <<pipeVars, uploadVars, dashVars, wsVars, now, rl_store, apiVars>>

\* A request for a rate-limited path arrives: rate_limit_dependency(request).
RateLimitDependency ==
    \E p \in {1}, ip \in {"10.0.0.1"}, path \in Paths :
      /\ rl[p].pc = "idle"
      /\ rl_log.calls < MaxDepCalls
      /\ BeginCheck(p, Identifier(ip), EndpointLimit(path), WINDOW_SECONDS, path)
      /\ rl_log' = [ rl_log EXCEPT !.calls = @ + 1 ]
      /\ UNCHANGED <<pipeVars, uploadVars, dashVars, wsVars, now, rl_store, apiVars>>

\* The requests of the path's endpoint class counted so far for key and window.
ClassCount(key, window, class) ==
    LET k == << key, window, class >> IN
    IF k \in DOMAIN rl_log.class_count THEN rl_log.class_count[k] ELSE 0

CountClass(log, key, window, class) ==
    LET k == << key, window, class >> IN
    [ log EXCEPT !.class_count =
        [ x \in DOMAIN log.class_count \cup {k} |->
            IF x = k THEN ClassCount(key, window, class) + 1 ELSE log.class_count[x] ] ]

\* count = await self.redis.incr(window_key)
RlIncr ==
    \E p \in Callers :
      /\ rl[p].pc = "incr"
      /\ LET k == << rl[p].key, rl[p].window >>
             class == EndpointClass(rl[p].path) IN
         /\ rl_store' = Incr(rl_store, k)
         /\ rl' = [ rl EXCEPT ![p].count = rl_store'[k].count,
                              ![p].nth = ClassCount(rl[p].key, rl[p].window, class) + 1,
                              ![p].pc = IF rl_store'[k].count = 1 THEN "expire"
                                                                 ELSE "return" ]
         /\ rl_log' = CountClass(rl_log, rl[p].key, rl[p].window, class)
      /\ UNCHANGED <<pipeVars, uploadVars, dashVars, wsVars, now, apiVars>>

\* if count == 1: await self.redis.expire(window_key, window_seconds)
RlExpire ==
    \E p \in Callers :
      /\ rl[p].pc = "expire"
      /\ rl_store' = Expire(rl_store, << rl[p].key, rl[p].window >>, rl[p].window_seconds)
      /\ rl' = [ rl EXCEPT ![p].pc = "return" ]
      /\ UNCHANGED <<pipeVars, uploadVars, dashVars, wsVars, now, rl_log, apiVars>>

AllowedAt(key, t) ==
    IF << key, t >> \in DOMAIN rl_log.allowed_at THEN rl_log.allowed_at[<< key, t >>] ELSE 0

\* return count <= max_requests; rate_limit_dependency raises 429 when it is False.
RlReturn ==
    \E p \in Callers :
      /\ rl[p].pc = "return"
      /\ LET allowed == Allowed(rl[p].count, rl[p].max_requests)
             k == << rl[p].key, rl[p].current_time >> IN
         rl_log' = [ rl_log EXCEPT
             !.allowed_at =
                 IF allowed
                   THEN [ x \in DOMAIN rl_log.allowed_at \cup {k} |->
                            IF x = k THEN AllowedAt(k[1], k[2]) + 1
                                     ELSE rl_log.allowed_at[x] ]
                   ELSE @,
             !.last = [ key |-> rl[p].key, window |-> rl[p].window,
                        max_requests |-> rl[p].max_requests, count |-> rl[p].count,
                        path |-> rl[p].path, nth |-> rl[p].nth, allowed |-> allowed ] ]
      /\ rl' = [ rl EXCEPT ![p] = IdleCall ]
      /\ UNCHANGED <<pipeVars, uploadVars, dashVars, wsVars, now, rl_store, apiVars>>

\* ------------------------------------------------------------------- users
\* The e-mail addresses and passwords requests carry: those of the first user
\* and ones no user has at the start.
Emails == { << "user", 1 >>, << "user", NumUsers + 1 >> }
Passwords == { << "password", 1 >>, << "password", NumUsers + 1 >> }

\* The e-mail address the bodies of PUT /users/{user_id} carry: for the first
\* user the one it has, for the others one that is taken while the first user
\* has it.
UpdatedEmails == { << "user", 1 >> }

\* get_password_hash(password): a bcrypt hash of the password.
GetPasswordHash(password) == [ scheme |-> "bcrypt", of |-> password ]

\* A row of the users table.
UserRow(email, hashed_password, is_active, is_superuser) ==
    [ email |-> email, hashed_password |-> hashed_password,
      is_active |-> is_active, is_superuser |-> is_superuser ]

\* The place of a deleted row: ids are never used again.
NoUser == UserRow(<< >>, [ scheme |-> "none", of |-> << >> ], FALSE, FALSE)

\* The users table the requests start from: ordinary users with hashed
\* passwords, and the last one a superuser.
InitialUsers ==
    [ u \in Users |->
        UserRow(<< "user", u >>, GetPasswordHash(<< "password", u >>), TRUE,
                u = NumUsers) ]

UserIds == 1..(NumUsers + MaxCreated)

\* select(User).where(User.id == user_id): scalar_one_or_none() is not None
UserExists(user_id) == user_id \in 1..Len(users) /\ users[user_id] # NoUser

\* select(User).where(User.email == email): the ids of the rows found.
UsersByEmail(email) == { u \in 1..Len(users) : users[u] # NoUser /\ users[u].email = email }

NoRequest ==
    [ op |-> "none", credentials |-> [ scheme |-> "internal" ], caller |-> 0,
      status |-> 0 ]

\* ---------------------------------------------------------------- security
\* str(user.id), the subject of the tokens login issues; other subjects a
\* token can carry: a string that is no integer, and none at all.
Str(n) == [ text |-> "int", value |-> n ]
Subjects ==
    { Str(u) : u \in Users } \cup { [ text |-> "word", value |-> 0 ],
                                    [ text |-> "absent", value |-> 0 ] }

\* create_access_token / create_refresh_token: the claims encoded and signed
\* with SECRET_KEY.
CreateAccessToken(sub) ==
    [ signed |-> TRUE, expired |-> FALSE, sub |-> sub, type |-> "access" ]
CreateRefreshToken(sub) ==
    [ signed |-> TRUE, expired |-> FALSE, sub |-> sub, type |-> "refresh" ]

\* The tokens requests carry: the access tokens login can issue, one after its
\* expiry, tokens with other subjects, and a string that is no token of this
\* server.
Tokens ==
    { CreateAccessToken(s) : s \in Subjects }
      \cup { [ CreateAccessToken(Str(1)) EXCEPT !.expired = TRUE ] }
      \cup { [ CreateAccessToken(Str(1)) EXCEPT !.signed = FALSE ] }

\* What HTTPBearer() is given: no Authorization header, or a bearer token.
NoHeader == [ scheme |-> "none" ]
Bearer(token) == [ scheme |-> "bearer", credentials |-> token ]
Credentials == { NoHeader } \cup { Bearer(t) : t \in Tokens }

\* The statuses HTTPBearer() answers a missing header with: 403, and 401 in
\* later releases of the framework.
NotAuthenticatedStatuses == { 401, 403 }

\* decode_token: jwt.decode raises JWTError for a bad signature and an expired
\* token, and None is returned.
None == [ none |-> TRUE ]
DecodeToken(token) ==
    IF token.signed /\ ~token.expired THEN [ sub |-> token.sub, type |-> token.type ]
                                       ELSE None

\* get_current_user without the is_active test.
GetCurrentUserActiveOrNot(credentials) ==
    LET payload == DecodeToken(credentials.credentials) IN
    IF payload = None THEN [ status |-> 401, user_id |-> 0 ]
    ELSE IF payload.sub.text = "absent" THEN [ status |-> 401, user_id |-> 0 ]
    ELSE IF payload.sub.text # "int" THEN [ status |-> 401, user_id |-> 0 ]
    ELSE IF ~UserExists(payload.sub.value) THEN [ status |-> 401, user_id |-> 0 ]
    ELSE [ status |-> 200, user_id |-> payload.sub.value ]

\* get_current_user(credentials) for a request that has a bearer token: the
\* user the token names, or the status of the HTTPException raised.
GetCurrentUser(credentials) ==
    LET payload == DecodeToken(credentials.credentials) IN
    IF payload = None THEN [ status |-> 401, user_id |-> 0 ]
    ELSE IF payload.sub.text = "absent" THEN [ status |-> 401, user_id |-> 0 ]
    ELSE IF payload.sub.text # "int" THEN [ status |-> 401, user_id |-> 0 ]
    ELSE IF ~UserExists(payload.sub.value) THEN [ status |-> 401, user_id |-> 0 ]
    ELSE IF ~users[payload.sub.value].is_active THEN [ status |-> 403, user_id |-> 0 ]
    ELSE [ status |-> 200, user_id |-> payload.sub.value ]

\* Depends(get_current_user): what the dependencies of a protected endpoint
\* can answer for the credentials of a request.
CurrentUsers(credentials) ==
    IF credentials = NoHeader
      THEN { [ status |-> s, user_id |-> 0 ] : s \in NotAuthenticatedStatuses }
      ELSE { GetCurrentUser(credentials) }

\* The response of a request the dependency refused.
Refused(op, credentials, status) ==
    [ op |-> op, credentials |-> credentials, caller |-> 0, status |-> status ]

\* The credentials the users of the table send: their own access tokens.
OwnCredentials(u) == Bearer(CreateAccessToken(Str(u)))

\* ------------------------------------------------------------ QueryService
\* Questions: one in which _rule_based_analysis finds "nda", one in which it
\* finds none of its keywords.
Questions == { "Show me all NDAs", "List my contracts" }

\* request.filters: no filters, or agreement_types = ["NDA"].
SuppliedFilters == { {}, {"NDA"} }

\* QueryRequest.max_results when the request names none.
DEFAULT_MAX_RESULTS == 10

\* _rule_based_analysis: filters["agreement_type"] = "NDA" when the lowered
\* question contains "nda".
RuleBasedAnalysis(question) ==
    [ raised |-> FALSE,
      agreement_type |-> IF question = "Show me all NDAs" THEN "NDA" ELSE NULL ]

\* _analyze_query: without an LLM the rules; with one the chain's answer, or
\* the rules' when the chain raises.
AnalyzeQuery(llm, answer, question) ==
    IF llm = "ok" THEN [ raised |-> FALSE, agreement_type |-> answer ]
    ELSE RuleBasedAnalysis(question)

\* The WHERE clauses of _fetch_matching_documents: the base query, and with any
\* filter the join with document_metadata and the clauses on its columns.
MatchingDocuments(u, agreement_type, agreement_types) ==
    { d \in DocsOf(u) :
        /\ ProcessedClause(documents[d])
        /\ (agreement_type # NULL \/ agreement_types # {}) =>
              \E i \in 1..Len(document_metadata) :
                 /\ document_metadata[i].document_id = d
                 /\ agreement_type # NULL =>
                       document_metadata[i].agreement_type = agreement_type
                 /\ agreement_types # {} =>
                       document_metadata[i].agreement_type \in agreement_types }

\* order_by(Document.upload_date.desc()): the latest upload first.
RECURSIVE Ordered(_)
Ordered(ds) ==
    IF ds = {} THEN << >>
    ELSE LET d == CHOOSE x \in ds : \A y \in ds : y <= x IN << d >> \o Ordered(ds \ {d})

\* stmt.offset((page - 1) * max_results).limit(max_results)
PageOf(rows, page, max_results) ==
    LET offset == (page - 1) * max_results
        last == IF offset + max_results < Len(rows) THEN offset + max_results
                                                     ELSE Len(rows) IN
    SubSeq(rows, offset + 1, last)

\* QueryService.execute_query for user u, called for the request of caller:
\* analyse the question, count and fetch the page of matching documents, log
\* the query and commit. Any exception, the foreign key of the logged row
\* included, is answered with 500.
QueryDocuments(op, caller, u, max_results, credentials) ==
    /\ Len(queries) < MaxQueries
    /\ \E question \in Questions, filters \in SuppliedFilters,
          o \in LlmOutcomes, db_ok \in BOOLEAN :
         LET query_analysis == AnalyzeQuery(o.llm, o.answer, question)
             matching == MatchingDocuments(u, query_analysis.agreement_type, filters)
             page == 1
             request == [ question |-> question, filters |-> filters, llm |-> o.llm,
                          analysis |-> query_analysis.agreement_type ] IN
         IF ~query_analysis.raised /\ db_ok /\ UserExists(u)
           THEN /\ queries' = Append(queries, [ user_id |-> u, query_text |-> question ])
                /\ api' = [ op |-> op, credentials |-> credentials,
                            caller |-> caller, request |-> request, status |-> 200,
                            detail |-> NULL,
                            body |-> [ results |-> PageOf(Ordered(matching), page,
                                                           max_results),
                                       total_results |-> Cardinality(matching) ] ]
           ELSE /\ queries' = queries
                /\ api' = [ op |-> op, credentials |-> credentials,
                            caller |-> caller, request |-> request, status |-> 500,
                            detail |-> IF query_analysis.raised THEN "llm_error"
                                       ELSE IF ~UserExists(u) THEN "foreign_key"
                                       ELSE "db_error",
                            body |-> [ results |-> << >>, total_results |-> 0 ] ]
    /\ UNCHANGED <<pipeVars, uploadVars, dashVars, wsVars, rlVars, users>>

\* POST /query by the users of the table with their own tokens.
ExecuteQuery ==
    \E u \in Users :
       QueryDocuments("query", u, u, DEFAULT_MAX_RESULTS, OwnCredentials(u))

\* ------------------------------------------------------ documents endpoints
\* The default of the limit parameter of GET /documents.
DEFAULT_LIST_LIMIT == 100

\* DocumentResponse: what a response shows of a Document row.
DocumentResponse(d) == [ id |-> d, processed |-> documents[d].processed ]

\* get_document without the comparison of document.user_id with the caller.
GetDocumentOfAnyOwner(document_id, current_user) ==
    IF ~DocumentExists(document_id) THEN [ status |-> 404, body |-> << >> ]
    ELSE [ status |-> 200, body |-> << DocumentResponse(document_id) >> ]

\* The handler of GET /documents/{document_id} for the authenticated user.
GetDocumentFor(document_id, current_user) ==
    IF ~DocumentExists(document_id) THEN [ status |-> 404, body |-> << >> ]
    ELSE IF documents[document_id].user_id # current_user
           THEN [ status |-> 403, body |-> << >> ]
    ELSE [ status |-> 200, body |-> << DocumentResponse(document_id) >> ]

\* DocumentService.list_documents(user_id, db, skip=0, limit=100): the rows of
\* the user, latest upload first.
ListDocumentsFor(current_user) ==
    LET rows == PageOf(Ordered(DocsOf(current_user)), 1, DEFAULT_LIST_LIMIT) IN
    [ status |-> 200,
      body |-> [ i \in 1..Len(rows) |-> DocumentResponse(rows[i]) ] ]

\* The response of a request the dependency let through.
Answered(op, credentials, caller, request, response) ==
    [ op |-> op, credentials |-> credentials, caller |-> caller, request |-> request,
      status |-> response.status, body |-> response.body ]

\* GET /documents/{document_id}
GetDocument ==
    /\ \E c \in Credentials :
       \E current \in CurrentUsers(c) :
         IF current.status # 200
           THEN api' = Refused("get_document", c, current.status)
           ELSE \E document_id \in 1..(MaxDocs + 1) :
                api' = Answered("get_document", c, current.user_id, document_id,
                                GetDocumentFor(document_id, current.user_id))
    /\ UNCHANGED <<pipeVars, uploadVars, dashVars, wsVars, rlVars, users, queries>>

\* GET /documents
ListDocuments ==
    /\ \E c \in Credentials :
       \E current \in CurrentUsers(c) :
         api' = IF current.status # 200
                  THEN Refused("list_documents", c, current.status)
                  ELSE Answered("list_documents", c, current.user_id, 0,
                                ListDocumentsFor(current.user_id))
    /\ UNCHANGED <<pipeVars, uploadVars, dashVars, wsVars, rlVars, users, queries>>

\* ---------------------------------------------------------- auth endpoints
\* pwd_context.verify(plain_password, hashed_password): passlib raises
\* UnknownHashError for a stored value that is no hash of a known scheme.
VerifyPassword(plain_password, hashed_password) ==
    IF hashed_password.scheme = "bcrypt"
      THEN [ raised |-> FALSE, verified |-> hashed_password.of = plain_password ]
      ELSE [ raised |-> TRUE, verified |-> FALSE ]

\* UserResponse: what a response shows of a User row.
UserResponse(user_id) ==
    [ id |-> user_id, email |-> users[user_id].email,
      is_active |-> users[user_id].is_active ]

NoTokens == [ access_token |-> None, refresh_token |-> None ]

\* The handler of POST /auth/login.
LoginFor(email, password) ==
    LET found == UsersByEmail(email) IN
    IF found = {} THEN [ status |-> 401, body |-> NoTokens ]
    ELSE LET user_id == CHOOSE u \in found : TRUE
             checked == VerifyPassword(password, users[user_id].hashed_password) IN
         IF checked.raised THEN [ status |-> 500, body |-> NoTokens ]
         ELSE IF ~checked.verified THEN [ status |-> 401, body |-> NoTokens ]
         ELSE IF ~users[user_id].is_active THEN [ status |-> 403, body |-> NoTokens ]
         ELSE [ status |-> 200,
                body |-> [ access_token |-> CreateAccessToken(Str(user_id)),
                           refresh_token |-> CreateRefreshToken(Str(user_id)) ] ]

\* POST /auth/login
Login ==
    /\ \E email \in Emails, password \in Passwords :
         api' = Answered("login", NoHeader, 0,
                         [ email |-> email, password |-> password ],
                         LoginFor(email, password))
    /\ UNCHANGED <<pipeVars, uploadVars, dashVars, wsVars, rlVars, users, queries>>

\* GET /auth/me: the row with id 1, whatever the request carries.
Me ==
    /\ \E c \in { NoHeader, OwnCredentials(NumUsers) } :
         api' = Answered("me", c, 0, 0,
                         IF UserExists(1)
                           THEN [ status |-> 200, body |-> { UserResponse(1) } ]
                           ELSE [ status |-> 404, body |-> {} ])
    /\ UNCHANGED <<pipeVars, uploadVars, dashVars, wsVars, rlVars, users, queries>>

\* --------------------------------------------------------- users endpoints
\* select(User).offset(0).limit(100): every row of the table.
ListUsersFor(current_user) ==
    [ status |-> 200,
      body |-> { UserResponse(u) : u \in { v \in 1..Len(users) : users[v] # NoUser } } ]

\* The handler of GET /users/{user_id}.
GetUserFor(user_id, current_user) ==
    IF user_id # current_user /\ ~users[current_user].is_superuser
      THEN [ status |-> 403, body |-> {} ]
    ELSE IF ~UserExists(user_id) THEN [ status |-> 404, body |-> {} ]
    ELSE [ status |-> 200, body |-> { UserResponse(user_id) } ]

\* GET /users
ListUsers ==
    /\ \E c \in Credentials :
       \E current \in CurrentUsers(c) :
         api' = IF current.status # 200
                  THEN Refused("list_users", c, current.status)
                  ELSE Answered("list_users", c, current.user_id, 0,
                                ListUsersFor(current.user_id))
    /\ UNCHANGED <<pipeVars, uploadVars, dashVars, wsVars, rlVars, users, queries>>

\* GET /users/{user_id}
GetUser ==
    /\ \E c \in Credentials :
       \E current \in CurrentUsers(c) :
         IF current.status # 200
           THEN api' = Refused("get_user", c, current.status)
           ELSE \E user_id \in UserIds :
                api' = Answered("get_user", c, current.user_id, user_id,
                                GetUserFor(user_id, current.user_id))
    /\ UNCHANGED <<pipeVars, uploadVars, dashVars, wsVars, rlVars, users, queries>>

\* POST /users: no credentials are asked for; the password is stored as it is
\* sent.
CreateUser ==
    /\ Len(users) < NumUsers + MaxCreated
    /\ \E email \in Emails, password \in Passwords, is_active \in BOOLEAN :
         LET request == [ email |-> email, password |-> password ] IN
         IF UsersByEmail(email) # {}
           THEN /\ users' = users
                /\ api' = Answered("create_user", NoHeader, 0, request,
                                   [ status |-> 400, body |-> {} ])
         ELSE /\ users' = Append(users,
                     UserRow(email, [ scheme |-> "plain", of |-> password ],
                             is_active, FALSE))
              /\ api' = Answered("create_user", NoHeader, 0, request,
                     [ status |-> 201,
                       body |-> { [ id |-> Len(users) + 1, email |-> email,
                                    is_active |-> is_active ] } ])
    /\ UNCHANGED <<pipeVars, uploadVars, dashVars, wsVars, rlVars, queries>>

\* The handler of PUT /users/{user_id}: the table and the response. The commit
\* fails on the unique index when another row has the e-mail.
UpdateUserFor(user_id, email, is_active, current_user) ==
    IF user_id # current_user /\ ~users[current_user].is_superuser
      THEN [ users |-> users, status |-> 403, body |-> {} ]
    ELSE IF ~UserExists(user_id) THEN [ users |-> users, status |-> 404, body |-> {} ]
    ELSE IF UsersByEmail(email) \ {user_id} # {}
      THEN [ users |-> users, status |-> 500, body |-> {} ]
    ELSE [ users |-> [ users EXCEPT ![user_id].email = email,
                                    ![user_id].is_active = is_active ],
           status |-> 200,
           body |-> { [ id |-> user_id, email |-> email, is_active |-> is_active ] } ]

\* PUT /users/{user_id}
UpdateUser ==
    /\ \E c \in Credentials :
       \E current \in CurrentUsers(c) :
         IF current.status # 200
           THEN /\ api' = Refused("update_user", c, current.status)
                /\ users' = users
           ELSE \E user_id \in UserIds, email \in UpdatedEmails, is_active \in BOOLEAN :
                LET r == UpdateUserFor(user_id, email, is_active, current.user_id) IN
                /\ api' = Answered("update_user", c, current.user_id, user_id, r)
                /\ users' = r.users
    /\ UNCHANGED <<pipeVars, uploadVars, dashVars, wsVars, rlVars, queries>>

\* The rows with a foreign key to the users row.
Referenced(user_id) ==
    \/ \E d \in 1..Len(documents) : documents[d].user_id = user_id
    \/ \E q \in 1..Len(queries) : queries[q].user_id = user_id

\* The handler of DELETE /users/{user_id}: the table and the response. The
\* commit fails when documents or queries refer to the row.
DeleteUserFor(user_id, current_user) ==
    IF ~users[current_user].is_superuser
      THEN [ users |-> users, status |-> 403, body |-> {} ]
    ELSE IF ~UserExists(user_id) THEN [ users |-> users, status |-> 404, body |-> {} ]
    ELSE IF Referenced(user_id)
      THEN [ users |-> users, status |-> 500, body |-> {} ]
    ELSE [ users |-> [ users EXCEPT ![user_id] = NoUser ], status |-> 204, body |-> {} ]

\* DELETE /users/{user_id}
DeleteUser ==
    /\ \E c \in Credentials :
       \E current \in CurrentUsers(c) :
         IF current.status # 200
           THEN /\ api' = Refused("delete_user", c, current.status)
                /\ users' = users
           ELSE \E user_id \in UserIds :
                LET r == DeleteUserFor(user_id, current.user_id) IN
                /\ api' = Answered("delete_user", c, current.user_id, user_id, r)
                /\ users' = r.users
    /\ UNCHANGED <<pipeVars, uploadVars, dashVars, wsVars, rlVars, queries>>

\* ----------------------------------------------------- protected endpoints
\* The response slot of a request whose handler has started and not answered.
Accepted(op, credentials, caller) ==
    [ op |-> op, credentials |-> credentials, caller |-> caller, status |-> 0 ]

\* max_results of ExportRequest
EXPORT_MAX_RESULTS == 1000

\* POST /documents/upload: Depends(get_current_user), then the handler.
UploadRequest ==
    \E c \in Credentials :
    \E current \in CurrentUsers(c) :
      IF current.status # 200
        THEN /\ api' = Refused("upload", c, current.status)
             /\ UNCHANGED <<pipeVars, uploadVars, dashVars, wsVars, rlVars, users, queries>>
        ELSE /\ api' = Accepted("upload", c, current.user_id)
             /\ UploadDocumentsFor(current.user_id, SingleFiles)

\* GET /dashboard: Depends(get_current_user), then the handler.
DashboardRequest ==
    \E c \in Credentials :
    \E current \in CurrentUsers(c) :
      IF current.status # 200
        THEN /\ api' = Refused("dashboard", c, current.status)
             /\ UNCHANGED <<pipeVars, uploadVars, dashVars, wsVars, rlVars, users, queries>>
        ELSE /\ api' = Accepted("dashboard", c, current.user_id)
             /\ GetDashboardStatsFor(current.user_id)

\* POST /query: Depends(get_current_user), then the handler.
QueryRequest ==
    \E c \in Credentials :
    \E current \in CurrentUsers(c) :
      IF current.status # 200
        THEN /\ api' = Refused("query", c, current.status)
             /\ UNCHANGED <<pipeVars, uploadVars, dashVars, wsVars, rlVars, users, queries>>
        ELSE QueryDocuments("query", current.user_id, current.user_id,
                            DEFAULT_MAX_RESULTS, c)

\* POST /export/query-results/csv: Depends(get_current_user), then the handler,
\* which runs the query for the user_id of the request body.
ExportRequest ==
    \E c \in Credentials :
    \E current \in CurrentUsers(c) :
      IF current.status # 200
        THEN /\ api' = Refused("export", c, current.status)
             /\ UNCHANGED <<pipeVars, uploadVars, dashVars, wsVars, rlVars, users, queries>>
        ELSE \E user_id \in Users :
               QueryDocuments("export", current.user_id, user_id,
                              EXPORT_MAX_RESULTS, c)

\* ------------------------------------------------------------ specifications
Init ==
    /\ documents = << >>
    /\ document_metadata = << >>
    /\ document_chunks = << >>
    /\ celery_queue = {}
    /\ upload = IdleUpload
    /\ worker = IdleWorker
    /\ dispatched = << >>
    /\ executions = [ d \in DocIds |-> 0 ]
    /\ cache = [ u \in Users |-> NoEntry ]
    /\ dash = [ r \in DashReqs |-> IdleDash ]
    /\ uploaded = [ u \in Users |-> 0 ]
    /\ active_connections = << >>
    /\ ws = [ s \in Sockets |-> NewSocket ]
    /\ pubsub = [ s \in Sockets |-> NoPubSub ]
    /\ forwarded = [ s \in Sockets |-> << >> ]
    /\ expected = [ s \in Sockets |-> << >> ]
    /\ ws_published = 0
    /\ now = 0
    /\ rl_store = << >>
    /\ rl = [ p \in Callers |-> IdleCall ]
    /\ rl_log = [ calls |-> 0, allowed_at |-> << >>, class_count |-> << >>, last |-> NoReturn ]
    /\ users = InitialUsers
    /\ api = NoRequest
    /\ queries = << >>
    /\ mgr = [ c \in Connections |-> NewConnection ]

\* Upload endpoint and Celery worker.
Next ==
    \/ UploadStart \/ SaveUploadedFile \/ DispatchTask \/ UploadReturn
    \/ TaskStart \/ ProcessBody \/ CommitProcessed \/ NotifyProcessed
    \/ TaskSucceeded \/ SaveErrorState
    \/ NotifyError \/ RaiseToTask

Spec == Init /\ [][Next]_vars

\* Upload endpoint and Celery worker, with worker loss and redelivery.
NextRedeliver ==
    \/ UploadStart \/ SaveUploadedFile \/ DispatchTask \/ UploadReturn
    \/ TaskStart \/ ProcessBody \/ CommitProcessed \/ NotifyProcessed
    \/ TaskSucceeded \/ SaveErrorState
    \/ NotifyError \/ RaiseToTask \/ WorkerLost

SpecRedeliver == Init /\ [][NextRedeliver]_vars

\* Upload endpoint and Celery worker, where the worker eventually takes every
\* message off the queue and every execution it started runs to its end.
WorkerFairness ==
    /\ WF_vars(TaskStart) /\ WF_vars(ProcessBody) /\ WF_vars(CommitProcessed)
    /\ WF_vars(NotifyProcessed) /\ WF_vars(TaskSucceeded) /\ WF_vars(SaveErrorState)
    /\ WF_vars(NotifyError) /\ WF_vars(RaiseToTask)

SpecFair == Init /\ [][Next]_vars /\ WorkerFairness

\* WebSocket relay and publishers.
NextWs ==
    \/ WsConnect \/ WsSubscribe \/ ListenRedis \/ ClientCloses \/ ListenClient
    \/ WsFinally \/ PublishUpdate

SpecWs == Init /\ [][NextWs]_vars

\* WebSocket relay where every endpoint call goes on whenever it can: the
\* subscription, each listener's next turn and the finally block. Nothing
\* obliges a publisher to publish.
EndpointFairness ==
    /\ WF_vars(WsSubscribe) /\ WF_vars(ListenRedis)
    /\ WF_vars(ListenClient) /\ WF_vars(WsFinally)

SpecWsFair == Init /\ [][NextWs]_vars /\ EndpointFairness

\* Calls of the methods of the ConnectionManager.
NextManager == ManagerConnect \/ ManagerDisconnect \/ SendToUser \/ CloseAllConnections

SpecManager == Init /\ [][NextManager]_vars

\* Direct calls of RateLimiter.check_rate_limit.
NextRate == Tick \/ CheckRateLimit \/ RlIncr \/ RlExpire \/ RlReturn

SpecRate == Init /\ [][NextRate]_vars

\* Requests passing rate_limit_dependency.
NextRateDep == Tick \/ RateLimitDependency \/ RlIncr \/ RlExpire \/ RlReturn

SpecRateDep == Init /\ [][NextRateDep]_vars

\* Upload endpoint and dashboard statistics requests.
NextDash ==
    \/ UploadStart \/ SaveUploadedFile \/ DispatchTask \/ UploadReturn
    \/ DashStart \/ DashQuery \/ DashSetCache \/ CacheExpire

SpecDash == Init /\ [][NextDash]_vars

\* Upload endpoint, Celery worker and dashboard statistics requests.
NextPipeDash ==
    \/ UploadStart \/ SaveUploadedFile \/ DispatchTask \/ UploadReturn
    \/ TaskStart \/ ProcessBody \/ CommitProcessed \/ NotifyProcessed
    \/ TaskSucceeded \/ SaveErrorState
    \/ NotifyError \/ RaiseToTask
    \/ DashStart \/ DashQuery \/ DashSetCache \/ CacheExpire

SpecPipeDash == Init /\ [][NextPipeDash]_vars

\* Upload endpoint, Celery worker and query requests.
NextQuery ==
    \/ UploadStart \/ SaveUploadedFile \/ DispatchTask \/ UploadReturn
    \/ TaskStart \/ ProcessBody \/ CommitProcessed \/ NotifyProcessed
    \/ TaskSucceeded \/ SaveErrorState
    \/ NotifyError \/ RaiseToTask
    \/ ExecuteQuery

SpecQuery == Init /\ [][NextQuery]_vars

\* Upload endpoint and the requests that read documents.
NextDocs ==
    \/ UploadBatch \/ SaveUploadedFile \/ DispatchTask \/ UploadReturn
    \/ GetDocument \/ ListDocuments

SpecDocs == Init /\ [][NextDocs]_vars

\* Login and the users endpoints.
NextUsers ==
    \/ Login \/ Me \/ CreateUser
    \/ ListUsers \/ GetUser \/ UpdateUser \/ DeleteUser

SpecUsers == Init /\ [][NextUsers]_vars

\* Requests to the protected endpoints with any credentials: the dependency
\* and, when it lets the request through, the handler up to its first write.
NextAuth ==
    \/ UploadRequest \/ DashboardRequest \/ QueryRequest \/ ExportRequest
    \/ GetDocument \/ ListDocuments
    \/ ListUsers \/ GetUser \/ UpdateUser \/ DeleteUser

SpecAuth == Init /\ [][NextAuth]_vars

\* ------------------------------------------------------------------ claims
Committed == 1..Len(documents)

QueuedFor(d) == { msg \in celery_queue : msg.document_id = d }

WorkerOn(d) == worker.pc # "idle" /\ worker.document_id = d

\* C1 (as stated): every dispatched task carries the id of a committed document
\* and no id is dispatched twice; and once upload_documents is past a file, the
\* document row committed for it has a dispatched task.
C1_EveryCommittedDocumentDispatched ==
    /\ \A i \in 1..Len(dispatched) : dispatched[i] \in Committed
    /\ \A i, j \in 1..Len(dispatched) : dispatched[i] = dispatched[j] => i = j
    /\ \A d \in Committed :
         ~(upload.pc = "dispatch" /\ upload.document_id = d)
            => \E i \in 1..Len(dispatched) : dispatched[i] = d

\* C2: a document with processed=True has exactly one DocumentMetadata record,
\* and the text of the attempt that extracted it.
C2_ProcessedHasOneMetadata ==
    \A d \in Committed :
      documents[d].processed =>
        /\ MetadataCount(d) = 1
        /\ documents[d].raw_text # NULL

C2_Witness ==
    \E d \in Committed : documents[d].processed /\ worker.pc = "idle"

\* C3: a task is executed at most 1 + max_retries times; the message of retry n
\* is queued after the n-th failed attempt and only then; after the last
\* failed attempt no message for the document is left.
C3_AtMostFourExecutions ==
    /\ \A d \in DocIds : executions[d] <= max_retries + 1
    /\ \A msg \in celery_queue :
         /\ msg.retries <= max_retries
         /\ executions[msg.document_id] = msg.retries
    /\ worker.pc # "idle" => executions[worker.document_id] = worker.retries + 1
    /\ \A d \in Committed :
         (~WorkerOn(d) /\ ~documents[d].processed /\ executions[d] >= 1) =>
            IF executions[d] <= max_retries
              THEN Cardinality(QueuedFor(d)) = 1
              ELSE QueuedFor(d) = {}

C3_Witness ==
    \E d \in Committed :
      /\ executions[d] = max_retries + 1
      /\ ~documents[d].processed
      /\ worker.pc = "idle"
      /\ QueuedFor(d) = {}

\* C4 (as stated): when an attempt raises, the document is persisted with
\* processed=False and processing_error equal to the error text.
C4_ErrorAlwaysPersisted ==
    worker.pc = "raise" =>
      /\ ~documents[worker.document_id].processed
      /\ documents[worker.document_id].processing_error = worker.exc

\* C4 (amended): when an attempt raises, nothing of the attempt's text, page
\* count, metadata or chunks is persisted; the document row is the row the
\* attempt found with processed=False and processing_error the error text when
\* saving the error state succeeded, and the row the attempt found when saving
\* it failed; an attempt that met an exception never ends as a success.
C4_RolledBackAndErrorSavedIfPossible ==
    /\ worker.pc \in {"notify_error", "raise"} =>
         LET d == worker.document_id IN
         /\ worker.exc # NULL
         /\ MetadataCount(d) = 0
         /\ ChunkCount(d) = 0
         /\ worker.committed = "error" =>
              documents[d] = [ worker.start_doc EXCEPT !.processed = FALSE,
                                                       !.processing_error = worker.exc ]
         /\ worker.committed # "error" =>
              /\ worker.pc = "raise"
              /\ documents[d] = worker.start_doc
    /\ worker.pc \in {"commit", "notify_processed", "done"} => worker.exc = NULL

C4_Witness ==
    /\ worker.pc = "raise"
    /\ worker.exc = "commit_error"
    /\ worker.committed = "error"
    /\ documents[worker.document_id].processing_error = "commit_error"

\* C5: an attempt publishes exactly once, after its commit and with the status
\* it committed, when it committed one, and not at all otherwise; whether or not
\* the publish reaches Redis the committed status stays and the attempt ends as
\* it would have.
C5_OnePublishAfterCommit ==
    LET d == worker.document_id IN
    /\ worker.pc = "notify_processed" =>
         /\ worker.committed = "processed" /\ worker.notified = << >>
         /\ documents[d].processed
    /\ worker.pc = "notify_error" =>
         /\ worker.committed = "error" /\ worker.notified = << >>
         /\ ~documents[d].processed /\ documents[d].processing_error = worker.exc
    /\ worker.pc \in {"idle", "process", "commit", "except"} => worker.notified = << >>
    /\ worker.pc \in {"done", "raise"} =>
         /\ Len(worker.notified) = IF worker.committed = "none" THEN 0 ELSE 1
         /\ worker.pc = "done" => worker.committed # "error"
         /\ worker.pc = "raise" => worker.committed # "processed"
         /\ worker.committed = "processed" =>
              /\ documents[d].processed
              /\ worker.notified[1].processed
              /\ worker.notified[1].user_id = documents[d].user_id
         /\ worker.committed = "error" =>
              /\ ~documents[d].processed
              /\ ~worker.notified[1].processed
              /\ worker.notified[1].processing_error = documents[d].processing_error
              /\ worker.notified[1].processing_error = worker.exc
              /\ worker.notified[1].user_id = documents[d].user_id

C5_Witness ==
    /\ worker.pc = "done"
    /\ worker.committed = "processed"
    /\ Len(worker.notified) = 1
    /\ ~worker.notified[1].published
    /\ documents[worker.document_id].processed

IsPrefix(a, b) == Len(a) <= Len(b) /\ \A i \in 1..Len(a) : a[i] = b[i]

Waiting(s) == { i \in 1..Len(pubsub[s].inbox) : pubsub[s].inbox[i].type = "message" }

\* C6: what a socket was sent is, in order and without repetition, what was
\* published on its own user's channel while it was connected and subscribed:
\* always a prefix of it, all of it once the subscription has nothing waiting
\* and the client is still connected, and never a message of another channel.
C6_ForwardedOnceInOrderToOwner ==
    \A s \in Sockets :
      /\ IsPrefix(forwarded[s], expected[s])
      /\ \A i \in 1..Len(forwarded[s]) : forwarded[s][i].channel = ws[s].user_id
      /\ (ws[s].pc = "listening" /\ ~ws[s].gone /\ Waiting(s) = {})
            => forwarded[s] = expected[s]

C6_Witness ==
    \E s \in Sockets :
      /\ Len(forwarded[s]) = 2
      /\ forwarded[s][1] # forwarded[s][2]
      /\ forwarded[s] = expected[s]
      /\ ws[s].pc = "listening"
      /\ ~ws[s].gone

\* The calls of a key allowed with a current_time in window w.
RECURSIVE SumAllowed(_, _)
SumAllowed(key, ts) ==
    IF ts = {} THEN 0
    ELSE LET t == CHOOSE x \in ts : TRUE IN AllowedAt(key, t) + SumAllowed(key, ts \ {t})

Times == 0..MaxTime

\* C7 (as stated): for any key and any fixed window current_time // window_seconds
\* check_rate_limit returns True for at most max_requests calls.
C7_AtMostMaxRequestsPerWindow ==
    \A ip \in Ips, w \in Times :
      SumAllowed(Identifier(ip), { t \in Times : t \div RateWindow = w }) <= RateMax

\* C8 (as stated): in any interval of window_seconds consecutive seconds at most
\* max_requests requests of a key are allowed.
C8_SlidingWindow ==
    \A ip \in Ips, t0 \in Times :
      SumAllowed(Identifier(ip), { t \in Times : t0 <= t /\ t < t0 + RateWindow })
         <= RateMax

\* C9 (as stated): a request is allowed exactly when it is within the limit of
\* the endpoint class it accesses, counting the client's requests to that class
\* in the window only.
C9_LimitPerEndpointClass ==
    rl_log.last.path # << >> =>
       (rl_log.last.allowed <=> rl_log.last.nth <= EndpointLimit(rl_log.last.path))

\* C10 (as stated): a get_dashboard_stats call that starts after an upload of
\* the user has returned counts at least the documents of the user's returned
\* uploads.
C10_NoStatsFromBeforeUpload ==
    \A r \in DashReqs :
      dash[r].pc = "done" => dash[r].stats.total_documents >= dash[r].base

\* The documents of user u that are processed when the queries run.
ProcessedDocsOf(u) == { d \in DocsOf(u) : documents[d].processed }

\* C11 (as stated): the statistics a cache miss computes have total_documents
\* equal to the number of the user's documents, processed_documents equal to
\* the number of the user's documents with processed=True, and per agreement
\* type the number of the user's metadata records with that value.
C11_StatsCountProcessedDocuments ==
    [][ \A r \in DashReqs :
          (dash[r].pc = "query" /\ dash'[r].pc = "set") =>
             /\ dash'[r].stats.total_documents = Cardinality(DocsOf(dash[r].user_id))
             /\ dash'[r].stats.processed_documents =
                    Cardinality(ProcessedDocsOf(dash[r].user_id))
             /\ \A t \in AgreementTypes :
                  dash'[r].stats.agreement_types[t] =
                    Cardinality({ i \in 1..Len(document_metadata) :
                       /\ documents[document_metadata[i].document_id].user_id
                             = dash[r].user_id
                       /\ document_metadata[i].agreement_type = t }) ]_vars

\* The documents a query of user u should return: u's processed documents whose
\* metadata has the agreement type asked for, when one is asked for.
ShouldMatch(u, agreement_type, agreement_types) ==
    { d \in ProcessedDocsOf(u) :
        \A t \in (IF agreement_type = NULL THEN {} ELSE {agreement_type})
                  \cup (IF agreement_types = {} THEN {} ELSE {agreement_types}) :
           \E i \in 1..Len(document_metadata) :
              /\ document_metadata[i].document_id = d
              /\ IF t \in AgreementTypes THEN document_metadata[i].agreement_type = t
                                         ELSE document_metadata[i].agreement_type \in t }

\* C12 (as stated): an answered query finds exactly the processed documents of
\* the caller that satisfy the filter derived from the question and the
\* supplied filter list.
C12_QueryReturnsMatchingDocuments ==
    [][ Len(queries') > Len(queries) =>
          LET should == ShouldMatch(api'.caller, api'.request.analysis,
                                    api'.request.filters) IN
          /\ api'.body.total_results = Cardinality(should)
          /\ { api'.body.results[i] : i \in 1..Len(api'.body.results) } = should ]_vars

\* C13: GET /documents/{id} answers 404 when no document has the id, 403 when
\* the document is another user's, and the document only when it is the
\* caller's; GET /documents answers with the caller's documents only. The
\* caller is the user the token was issued to.
C13_OnlyOwnDocuments ==
    [][ (api' # api /\ api'.caller # 0
           /\ api'.op \in {"get_document", "list_documents"}) =>
          /\ api'.caller = api'.credentials.credentials.sub.value
          /\ \A i \in 1..Len(api'.body) :
                /\ api'.status = 200
                /\ DocumentExists(api'.body[i].id)
                /\ documents[api'.body[i].id].user_id = api'.caller
          /\ api'.op = "get_document" =>
                IF ~DocumentExists(api'.request) THEN api'.status = 404
                ELSE IF documents[api'.request].user_id # api'.caller
                       THEN api'.status = 403
                ELSE /\ api'.status = 200
                     /\ Len(api'.body) = 1 /\ api'.body[1].id = api'.request
          /\ api'.op = "list_documents" =>
                /\ api'.status = 200
                /\ { api'.body[i].id : i \in 1..Len(api'.body) }
                      = DocsOf(api'.caller) ]_vars

\* A user asked for the document another user uploaded and was answered 403.
C13_Witness ==
    /\ api.op = "get_document" /\ api.caller # 0 /\ api.status = 403
    /\ DocumentExists(api.request)
    /\ documents[api.request].user_id # api.caller

\* C15 (as stated): GET /auth/me without credentials is answered with 401 or
\* 403 and never with a user's data.
C15_MeRequiresAuthentication ==
    (api.op = "me" /\ api.credentials = NoHeader) =>
        api.status \in {401, 403} /\ api.body = {}

\* The password verifies against the stored value: the value is a hash of it.
Verifies(password, hashed_password) == hashed_password = GetPasswordHash(password)

\* C16 (as stated): login answers 200 with an access and a refresh token whose
\* subject is the user's id only when a user has the e-mail, the password
\* verifies against the stored hash and the user is active; it answers 401 for
\* an unknown e-mail or a wrong password and 403 for an inactive user, with no
\* token.
C16_LoginIssuesTokensOnlyToVerifiedActiveUsers ==
    [][ (api' # api /\ api'.op = "login") =>
          LET known == { u \in UsersByEmail(api'.request.email) :
                           Verifies(api'.request.password, users[u].hashed_password) }
          IN
          IF known = {} THEN api'.status = 401 /\ api'.body = NoTokens
          ELSE IF \E u \in known : ~users[u].is_active
                 THEN api'.status = 403 /\ api'.body = NoTokens
          ELSE /\ api'.status = 200
               /\ \E u \in known :
                    /\ api'.body.access_token = CreateAccessToken(Str(u))
                    /\ api'.body.refresh_token = CreateRefreshToken(Str(u)) ]_vars

\* C19 (as stated): a caller who is no superuser obtains no record but the
\* caller's own through the users endpoints; an update of another user's record
\* and a delete by such a caller are answered 403; a request answered 403 leaves
\* the users table unchanged.
C19_OnlyOwnProfileUnlessSuperuser ==
    [][ (api' # api /\ api'.caller # 0
           /\ api'.op \in {"list_users", "get_user", "update_user", "delete_user"}) =>
          /\ ~users[api'.caller].is_superuser =>
                /\ \A r \in api'.body : r.id = api'.caller
                /\ (api'.op = "update_user" /\ api'.request # api'.caller)
                      => api'.status = 403
                /\ api'.op = "delete_user" => api'.status = 403
          /\ api'.status = 403 => users' = users ]_vars

ProtectedOps ==
    { "upload", "dashboard", "query", "export", "get_document", "list_documents",
      "list_users", "get_user", "update_user", "delete_user" }

\* The credentials of the claim: no bearer token, a token that cannot be
\* decoded or has expired, a token without an integer subject, a token whose
\* subject is no existing user, and the token of an inactive user.
NotAcceptable(c) ==
    \/ c = NoHeader
    \/ /\ c # NoHeader
       /\ LET token == c.credentials IN
          \/ ~token.signed
          \/ token.expired
          \/ token.sub.text # "int"
          \/ /\ token.sub.text = "int"
             /\ \/ token.sub.value \notin 1..Len(users)
                \/ users[token.sub.value] = NoUser
                \/ ~users[token.sub.value].is_active

C17_InvalidExtensionAnswered422 ==
    (upload.pc = "returned"
       /\ \E i \in 1..Len(upload.files) : upload.files[i].ext \notin ALLOWED_EXTENSIONS)
      => upload.status = 422

\* The response of an upload has total = number of files = successful + failed
\* and one entry per file in request order; a file with a wrong extension or
\* more than MAX_FILE_SIZE bytes gets the entry with status "error" and
\* document_id 0; the entries with status "success" name distinct rows of the
\* caller that were dispatched.
ResponseHasOneEntryPerFile ==
    upload.pc = "returned" =>
      /\ Len(upload.results) = Len(upload.files)
      /\ upload.successful + upload.failed = Len(upload.files)
      /\ upload.successful =
            Cardinality({ i \in 1..Len(upload.results) :
                            upload.results[i].status = "success" })
      /\ \A i \in 1..Len(upload.files) :
            /\ ~FileAccepted(upload.files[i]) => upload.results[i] = ErrorResult
            /\ upload.results[i].status = "success" =>
                  /\ DocumentExists(upload.results[i].document_id)
                  /\ documents[upload.results[i].document_id].user_id = upload.user_id
                  /\ documents[upload.results[i].document_id].file_type
                        = WithoutDot(upload.files[i].ext)
                  /\ \E k \in 1..Len(dispatched) :
                        dispatched[k] = upload.results[i].document_id
                  /\ \A j \in 1..Len(upload.files) :
                        (j # i /\ upload.results[j].status = "success")
                          => upload.results[j].document_id # upload.results[i].document_id

\* The step of the loop for a rejected file adds no Document row, writes no
\* file, dispatches nothing, and goes on with the next file of the request.
RejectedFileHasNoEffect ==
    (upload.pc = "save" /\ upload' # upload /\ ~FileAccepted(upload.files[upload.i])) =>
       /\ documents' = documents
       /\ celery_queue' = celery_queue
       /\ upload'.written = upload.written
       /\ upload'.results = Append(upload.results, ErrorResult)
       /\ upload'.i = upload.i + 1
       /\ upload.i < Len(upload.files) => upload'.pc = "save"

ExtractionFallsBackToRules ==
    (worker.pc = "process" /\ worker' # worker) =>
       \/ worker'.pc = "except" /\ worker'.exc = "parse_error"
       \/ /\ worker'.pc = "commit"
          /\ worker'.llm \in {"none", "raises"} =>
                worker'.session.agreement_type
                  = ExtractWithRules(worker'.session.doc.raw_text).agreement_type

\* A query whose LLM was absent or raised was analysed by the rules, and was
\* not answered 500 for that.
AnalysisFallsBackToRules ==
    (api' # api /\ api'.op = "query") =>
       /\ api'.detail # "llm_error"
       /\ api'.request.llm \in {"none", "raises"} =>
             api'.request.analysis
               = RuleBasedAnalysis(api'.request.question).agreement_type

\* C20: extract_metadata and _analyze_query return the rule-based result when
\* there is no LLM or the LLM chain raises; no execution of the task fails, and
\* no query is answered 500, because of the LLM.
C20_LlmFailureNeverPropagates ==
    /\ [](worker.exc # "llm_error")
    /\ [][ExtractionFallsBackToRules /\ AnalysisFallsBackToRules]_vars

\* The LLM chain raised during an execution, and the execution is about to
\* commit the document as processed with the agreement type the rules found.
C20_Witness ==
    /\ worker.llm = "raises" /\ worker.pc = "commit"
    /\ worker.session.doc.processed
    /\ worker.session.metadata
    /\ worker.session.agreement_type = "NDA"

\* No exception of the embedding step ends an attempt, and an attempt whose
\* embedding step was unavailable or failed and whose commit went through has
\* committed processed=True and its one metadata record and notifies success.
EmbeddingFailureCommitted ==
    LET d == worker.document_id IN
    /\ worker.exc # "embedding_error"
    /\ (worker.embedding \in {"unavailable", "failed"}) =>
         /\ worker.pc \in {"commit", "notify_processed", "done"}
         /\ worker.pc = "commit" =>
              worker.session.metadata /\ worker.session.doc.processed
         /\ worker.pc \in {"notify_processed", "done"} =>
              /\ documents[d].processed
              /\ MetadataCount(d) = 1
              /\ worker.committed = "processed"
         /\ worker.pc = "done" =>
              /\ Len(worker.notified) = 1
              /\ worker.notified[1].processed

\* An attempt leaves the body of the try block for the except block only when
\* parsing or metadata extraction raised, and leaves the commit for it only
\* when the commit raised.
FailsOnlyOutsideEmbedding ==
    /\ (worker.pc = "process" /\ worker'.pc = "except") =>
         worker'.exc \in {"parse_error", "llm_error"} /\ worker'.embedding = NULL
    /\ (worker.pc = "commit" /\ worker' # worker) =>
         \/ worker'.pc = "notify_processed"
         \/ worker'.pc = "except" /\ worker'.exc = "commit_error"

\* C21: embeddings are optional: when the embedding service is unavailable or
\* the embedding step raises, the attempt still commits the metadata record and
\* processed=True and publishes the success notification; an attempt fails only
\* for errors outside the embedding step.
C21_EmbeddingsOptional ==
    []EmbeddingFailureCommitted /\ [][FailsOnlyOutsideEmbedding]_vars

C21_Witness ==
    /\ worker.pc = "done"
    /\ worker.embedding = "failed"
    /\ documents[worker.document_id].processed
    /\ MetadataCount(worker.document_id) = 1
    /\ ChunkCount(worker.document_id) = 0
    /\ worker.notified[1].processed

\* C22 (as stated): processing is idempotent under redelivery: once a document
\* is committed as processed with one metadata record and no processing_error,
\* a later execution of process_document for it leaves it processed=True with
\* exactly one metadata record, the same chunks and no processing_error.
C22_IdempotentUnderRedelivery ==
    [][ \A d \in Committed :
          (documents[d].processed /\ documents[d].processing_error = NULL
             /\ MetadataCount(d) = 1) =>
            /\ documents'[d].processed
            /\ documents'[d].processing_error = NULL
            /\ document_metadata' = document_metadata
            /\ document_chunks' = document_chunks ]_vars

\* C23 (as stated): the statuses processed / not processed / error exclude each
\* other: no document has processed=True together with a non-null
\* processing_error, also after a failed attempt followed by a successful retry.
C23_ProcessedExcludesError ==
    \A d \in Committed :
      ~(documents[d].processed /\ documents[d].processing_error # NULL)

Dispatched(d) == \E i \in 1..Len(dispatched) : dispatched[i] = d

\* C24 (as stated): every document whose processing task was dispatched
\* eventually has processed=True or a non-null processing_error, when the worker
\* eventually executes every dispatched or retried task.
C24_EventuallyTerminalStatus ==
    \A d \in DocIds :
      Dispatched(d) ~>
        (d \in Committed
           /\ (documents[d].processed \/ documents[d].processing_error # NULL))

Tracked(s) == \E u \in DOMAIN active_connections : s \in active_connections[u]

\* C25 (as stated): when the client of a websocket disconnects, the endpoint
\* eventually removes the socket from active_connections and unsubscribes and
\* closes its subscription, whether or not a further message is published on
\* the user's channel.
C25_DisconnectCleansUp ==
    \A s \in Sockets :
      ws[s].gone ~> (ws[s].pc = "done" /\ ~Tracked(s) /\ pubsub[s] = NoPubSub)

\* C26 (as stated): after any sequence of connect, disconnect, send_to_user and
\* close_all_connections, every user id present in active_connections maps to a
\* non-empty set of sockets, and a socket for which disconnect was called or to
\* which a send failed is in no set.
C26_NoEmptyEntryNoDeadSocket ==
    /\ \A u \in DOMAIN active_connections : active_connections[u] # {}
    /\ \A c \in Connections :
         mgr[c].state \in {"disconnected", "send_failed"} =>
           \A u \in DOMAIN active_connections : c \notin active_connections[u]

\* Request r is answered from the cache in this step.
ServedFromCache(r) ==
    /\ dash[r].pc \in {"idle", "done"}
    /\ dash'[r] # dash[r]
    /\ dash'[r].pc = "done"

\* C27 (as stated, for the case it names): a cached dashboard_stats entry is
\* not served after process_document committed metadata and processed=True for
\* a document of the user: the page total and the agreement type counts of an
\* answer from the cache are those of the tables at the time of the answer.
C27_NoStatsFromBeforeProcessing ==
    [][ \A r \in DashReqs :
          ServedFromCache(r) =>
            /\ dash'[r].stats.total_pages = ComputeStats(dash'[r].user_id).total_pages
            /\ dash'[r].stats.agreement_types =
                  ComputeStats(dash'[r].user_id).agreement_types ]_vars
====
